---- MODULE Spec2Model ----
(***************************************************************************)
(* A model of the file-serving HTTP handler of server.go: fileHandler and  *)
(* its ServeHTTP dispatcher, the sub-handlers it routes to, the response   *)
(* writer they write to and the file system they act on.                   *)
(*                                                                         *)
(* Strings are sequences of one-character strings, so that the prefix      *)
(* trimming and the lexical path cleaning of the handler are computed      *)
(* character by character, as the code computes them.  The host is a       *)
(* forward-slash host (filepath.Separator = '/').                          *)
(***************************************************************************)
EXTENDS Integers, Sequences, FiniteSets, TLC

VARIABLES
    f,       \* the fileHandler: route, path, allowUpload, allowDelete
    fs,      \* the file system: absolute path -> entry
    pc,      \* "idle", "serving" (a request is in the handler), "done"
    r,       \* the request being served, NoRequest when idle
    env,     \* the outcomes of the OS and library calls during this request
    osPath,  \* the local osPath of ServeHTTP, <<>> until it is computed
    w,       \* the http.ResponseWriter of the request
    served,  \* the number of requests accepted so far
    up       \* the uploads that run concurrently: id -> position, offset
             \* of its file descriptor, body, status sent

vars == <<f, fs, pc, r, env, osPath, w, served, up>>

----------------------------------------------------------------------------
(* Bounds of the model. *)

\* the number of requests one behaviour serves
MaxRequests == 2

\* the length of the longest uploaded body
MaxUploadLen == 1

\* the longest <rest> of a request path /m/<rest>
MaxRestLen == 3

\* the most chunks io.Copy writes for one concurrent upload
MaxChunks == 2

----------------------------------------------------------------------------
(* package strings *)

HasPrefix(s, prefix) ==
    /\ Len(prefix) <= Len(s)
    /\ SubSeq(s, 1, Len(prefix)) = prefix

HasSuffix(s, suffix) ==
    /\ Len(suffix) <= Len(s)
    /\ SubSeq(s, Len(s) - Len(suffix) + 1, Len(s)) = suffix

TrimPrefix(s, prefix) ==
    IF HasPrefix(s, prefix) THEN SubSeq(s, Len(prefix) + 1, Len(s)) ELSE s

\* strings.ReplaceAll for a one-character old and new
ReplaceAll(s, old, new) ==
    [i \in 1..Len(s) |-> IF s[i] = old THEN new ELSE s[i]]

osPathSeparator == "/"

----------------------------------------------------------------------------
(* package path/filepath, on a forward-slash host *)

\* the elements of s between separators, empty elements included
RECURSIVE SplitFrom(_, _, _)
SplitFrom(s, i, cur) ==
    IF i > Len(s) THEN <<cur>>
    ELSE IF s[i] = osPathSeparator
         THEN <<cur>> \o SplitFrom(s, i + 1, <<>>)
         ELSE SplitFrom(s, i + 1, Append(cur, s[i]))

Split(s) == SplitFrom(s, 1, <<>>)

RECURSIVE JoinElems(_)
JoinElems(elems) ==
    IF Len(elems) = 0 THEN <<>>
    ELSE IF Len(elems) = 1 THEN elems[1]
    ELSE elems[1] \o <<osPathSeparator>> \o JoinElems(Tail(elems))

DotDot == <<".", ".">>
Dot == <<".">>

\* the element loop of filepath.Clean: out is the cleaned elements so far
RECURSIVE CleanElems(_, _, _)
CleanElems(elems, rooted, out) ==
    IF Len(elems) = 0 THEN out
    ELSE LET e == Head(elems)
             rest == Tail(elems)
         IN  IF e = <<>> \/ e = Dot
             THEN CleanElems(rest, rooted, out)
             ELSE IF e = DotDot
             THEN IF Len(out) > 0 /\ out[Len(out)] # DotDot
                  THEN CleanElems(rest, rooted, SubSeq(out, 1, Len(out) - 1))
                  ELSE IF rooted
                  THEN CleanElems(rest, rooted, out)
                  ELSE CleanElems(rest, rooted, Append(out, DotDot))
             ELSE CleanElems(rest, rooted, Append(out, e))

Clean(p) ==
    IF p = <<>> THEN Dot
    ELSE LET rooted == p[1] = osPathSeparator
             out == CleanElems(Split(p), rooted, <<>>)
         IN  IF rooted THEN <<osPathSeparator>> \o JoinElems(out)
             ELSE IF out = <<>> THEN Dot ELSE JoinElems(out)

\* filepath.Join of two elements
Join(a, b) ==
    IF a # <<>> THEN Clean(a \o <<osPathSeparator>> \o b)
    ELSE IF b # <<>> THEN Clean(b)
    ELSE <<>>

RECURSIVE TrimTrailingSeps(_)
TrimTrailingSeps(p) ==
    IF Len(p) > 0 /\ p[Len(p)] = osPathSeparator
    THEN TrimTrailingSeps(SubSeq(p, 1, Len(p) - 1))
    ELSE p

Base(p) ==
    IF p = <<>> THEN Dot
    ELSE LET t == TrimTrailingSeps(p)
             es == Split(t)
         IN  IF t = <<>> THEN <<osPathSeparator>> ELSE es[Len(es)]

----------------------------------------------------------------------------
(* The file system.  fs maps the absolute path of every entry to the entry: *)
(* a directory, or a file and its bytes.                                    *)

Root == <<"/">>

DirEntry == [dir |-> TRUE, data |-> <<>>]
FileEntry(data) == [dir |-> FALSE, data |-> data]

\* a is p or an ancestor directory of p
Within(a, p) ==
    \/ p = a
    \/ a = Root /\ HasPrefix(p, Root)
    \/ HasPrefix(p, a \o <<osPathSeparator>>)

\* the directory a cleaned absolute path lies in
Parent(p) == Join(p, DotDot)

InitFS ==
    (Root :> DirEntry)
    @@ (<<"/", "r">> :> DirEntry)
    @@ (<<"/", "r", "/", "d">> :> DirEntry)
    @@ (<<"/", "r", "/", "f">> :> FileEntry(<<1, 2>>))
    @@ (<<"/", "s">> :> FileEntry(<<9>>))

(* The outcomes of the OS and library calls one request meets: at most one  *)
(* call fails, and env names the one that did.                              *)
Faults ==
    {"none", "statEACCES", "statEIO", "removeErr", "parseErr", "openErr",
     "copyErr", "dirOpenErr", "tmplErr", "archEarly", "archMid"}

\* os.Stat: the error, and IsDir of the FileInfo
Stat(files, p, fault) ==
    IF fault = "statEACCES" THEN [err |-> "EACCES", isDir |-> FALSE]
    ELSE IF fault = "statEIO" THEN [err |-> "EIO", isDir |-> FALSE]
    ELSE IF p \in DOMAIN files THEN [err |-> "nil", isDir |-> files[p].dir]
    ELSE IF \E a \in DOMAIN files : Within(a, p) /\ ~files[a].dir
         THEN [err |-> "ENOTDIR", isDir |-> FALSE]
         ELSE [err |-> "ENOENT", isDir |-> FALSE]

IsNotExist(err) == err = "ENOENT"
IsPermission(err) == err = "EACCES"

Without(files, p) == [q \in DOMAIN files \ {p} |-> files[q]]

\* os.Remove that reports success and removes nothing
RemoveNothing(files, p, fault) ==
    IF fault = "removeErr" THEN [err |-> "EIO", fs |-> files]
    ELSE [err |-> "nil", fs |-> files]

\* os.Remove
Remove(files, p, fault) ==
    IF fault = "removeErr" THEN [err |-> "EIO", fs |-> files]
    ELSE IF p \notin DOMAIN files THEN [err |-> "ENOENT", fs |-> files]
    ELSE IF files[p].dir /\ \E q \in DOMAIN files : q # p /\ Within(p, q)
         THEN [err |-> "ENOTEMPTY", fs |-> files]
         ELSE [err |-> "nil", fs |-> Without(files, p)]

\* os.OpenFile(p, os.O_CREATE|os.O_WRONLY, 0600): no O_TRUNC, so the bytes
\* of an existing file stay
OpenFile(files, p, fault) ==
    IF fault = "openErr" THEN [err |-> "EACCES", fs |-> files]
    ELSE IF p \in DOMAIN files
         THEN IF files[p].dir THEN [err |-> "EISDIR", fs |-> files]
              ELSE [err |-> "nil", fs |-> files]
    ELSE IF Parent(p) \in DOMAIN files /\ files[Parent(p)].dir
         THEN [err |-> "nil", fs |-> (p :> FileEntry(<<>>)) @@ files]
         ELSE [err |-> "ENOENT", fs |-> files]

\* n bytes written at offset 0 of a file opened without O_TRUNC
WriteAt0(old, in) ==
    in \o SubSeq(old, Len(in) + 1, Len(old))

\* io.Copy(out, in) into the file opened at p; a failing copy has written
\* all but the last byte
Copy(files, p, in, fault) ==
    IF fault = "copyErr"
    THEN [err |-> "EIO",
          fs |-> [files EXCEPT ![p].data =
                     WriteAt0(@, SubSeq(in, 1, Len(in) - 1))]]
    ELSE [err |-> "nil", fs |-> [files EXCEPT ![p].data = WriteAt0(@, in)]]

\* no upload runs beside the request being served
NoUploads == <<>>

\* a write of bytes through a file descriptor at offset off: the bytes
\* before and after the written range stay, a gap reads as zeros
WriteAt(old, off, in) ==
    LET n == IF Len(old) > off + Len(in) THEN Len(old) ELSE off + Len(in)
    IN  [i \in 1..n |->
            IF i > off /\ i <= off + Len(in) THEN in[i - off]
            ELSE IF i <= Len(old) THEN old[i]
            ELSE 0]

----------------------------------------------------------------------------
(* The http.ResponseWriter.  status is the status sent (0: none yet), sent  *)
(* the headers sent with it, header the header map the handler still sets,  *)
(* calls every status write in order (superfluous ones included, which the  *)
(* server ignores), body the chunks written.                                *)

NoHeader == <<>>

NewWriter ==
    [status |-> 0, sent |-> NoHeader, header |-> NoHeader,
     calls |-> <<>>, body |-> <<>>]

SetHeader(rw, key, value) ==
    [rw EXCEPT !.header =
        [k \in DOMAIN @ \cup {key} |-> IF k = key THEN value ELSE @[k]]]

WriteHeader(rw, status) ==
    IF rw.status = 0
    THEN [rw EXCEPT !.status = status, !.sent = rw.header,
                    !.calls = Append(@, status)]
    ELSE [rw EXCEPT !.calls = Append(@, status)]

\* Write sends status 200 first when no status was written
Write(rw, chunk) ==
    LET rw1 == IF rw.status = 0 THEN WriteHeader(rw, 200) ELSE rw
    IN  [rw1 EXCEPT !.body = Append(@, chunk)]

\* the server ends a response nothing was written to with status 200
FinishRequest(rw) ==
    IF rw.status = 0 THEN WriteHeader(rw, 200) ELSE rw

\* the chunks of a response body
Text(t) == [kind |-> "text", text |-> t]

StatusText(status) ==
    CASE status = 403 -> "Forbidden"
      [] status = 404 -> "Not Found"
      [] status = 500 -> "Internal Server Error"
      [] OTHER -> ""

\* a handler's result: its error, the writer and the file system after it
Result(err, rw, files) == [err |-> err, w |-> rw, fs |-> files]

----------------------------------------------------------------------------
(* The request: method, URL path, the values of the zip and tar.gz query    *)
(* parameters ("" when absent), and the multipart form of its body.         *)

tarGzKey == "tar.gz"
tarGzValue == "true"
tarGzContentType == "application/x-tar+gzip"
zipKey == "zip"
zipValue == "true"
zipContentType == "application/zip"

MethodGet == "GET"
MethodHead == "HEAD"
MethodPost == "POST"
MethodDelete == "DELETE"

\* rawq is the raw text of the query parameters other than zip and tar.gz
NoRequest == [method |-> "", path |-> <<>>, zip |-> "", tgz |-> "",
              rawq |-> "",
              form |-> [kind |-> "none", filename |-> <<>>, body |-> <<>>]]

\* url.URL.Query().Get(key)
QueryGet(req, key) ==
    IF key = zipKey THEN req.zip
    ELSE IF key = tarGzKey THEN req.tgz
    ELSE ""

\* url.URL.EscapedPath: of the characters of the model, the backslash is
\* the one that is escaped
EscapedPath(path) ==
    [i \in 1..Len(path) |-> IF path[i] = "\\" THEN "%5C" ELSE path[i]]

\* url.URL.String() of the request URL: the escaped path, then the query
URLString(req) ==
    LET zq == IF req.zip = "" THEN <<>> ELSE <<zipKey, "=", req.zip>>
        tq == IF req.tgz = "" THEN <<>> ELSE <<tarGzKey, "=", req.tgz>>
        oq == IF req.rawq = "" THEN <<>> ELSE <<req.rawq>>
        amp == IF zq # <<>> /\ tq # <<>> THEN <<"&">> ELSE <<>>
        amp2 == IF zq \o tq # <<>> /\ oq # <<>> THEN <<"&">> ELSE <<>>
        raw == zq \o amp \o tq \o amp2 \o oq
    IN  EscapedPath(req.path) \o (IF raw = <<>> THEN <<>> ELSE <<"?">> \o raw)

----------------------------------------------------------------------------
(* The sub-handlers.  Each takes the writer, the request, the resolved      *)
(* osPath, the file system and the fault of the request.                    *)

serveStatus(rw, status) ==
    Write(WriteHeader(rw, status), Text(StatusText(status)))

\* zip(w, osPath) and tarGz(w, osPath): the archive of the subtree at p is
\* written to the response in one pass; the walk fails before the first
\* byte, after some bytes, or not at all
Archive(rw, format, p, files, fault) ==
    IF fault = "archEarly" THEN Result("EIO", rw, files)
    ELSE IF fault = "archMid"
    THEN Result("EIO",
                Write(rw, [kind |-> "archive", format |-> format,
                           root |-> p, entries |-> {}]),
                files)
    ELSE Result("nil",
                Write(rw, [kind |-> "archive", format |-> format, root |-> p,
                           entries |-> {q \in DOMAIN files : Within(p, q)}]),
                files)

serveTarGz(rw, req, p, files, fault) ==
    LET rw1 == SetHeader(rw, "Content-Type", tarGzContentType)
        name == Base(p) \o <<".tar.gz">>
        rw2 == SetHeader(rw1, "Content-Disposition",
                         [attachment |-> TRUE, filename |-> name])
    IN  Archive(rw2, "tar.gz", p, files, fault)

\* serveZip with the two headers set after zip() has run
serveZipHeadersLate(rw, req, p, files, fault) ==
    LET res == Archive(rw, "zip", p, files, fault)
        rw1 == SetHeader(res.w, "Content-Type", zipContentType)
        name == Base(p) \o <<".zip">>
        rw2 == SetHeader(rw1, "Content-Disposition",
                         [attachment |-> TRUE, filename |-> name])
    IN  Result(res.err, rw2, res.fs)

serveZip(rw, req, p, files, fault) ==
    LET rw1 == SetHeader(rw, "Content-Type", zipContentType)
        name == Base(p) \o <<".zip">>
        rw2 == SetHeader(rw1, "Content-Disposition",
                         [attachment |-> TRUE, filename |-> name])
    IN  Archive(rw2, "zip", p, files, fault)

\* the byte of a character of the model
ByteOf(c) ==
    CASE c = "." -> 46
      [] c = "/" -> 47
      [] c = "2" -> 50
      [] c = "A" -> 65
      [] c = "B" -> 66
      [] c = "\\" -> 92
      [] c = "a" -> 97
      [] c = "b" -> 98
      [] c = "d" -> 100
      [] c = "f" -> 102
      [] c = "m" -> 109
      [] c = "r" -> 114
      [] c = "s" -> 115
      [] c = "x" -> 120

\* b < a on strings
RECURSIVE StrGreater(_, _)
StrGreater(a, b) ==
    IF a = <<>> THEN FALSE
    ELSE IF b = <<>> THEN TRUE
    ELSE IF a[1] # b[1] THEN ByteOf(a[1]) > ByteOf(b[1])
    ELSE StrGreater(Tail(a), Tail(b))

\* a < b on strings: byte order
RECURSIVE StrLess(_, _)
StrLess(a, b) ==
    IF b = <<>> THEN FALSE
    ELSE IF a = <<>> THEN TRUE
    ELSE IF a[1] # b[1] THEN ByteOf(a[1]) < ByteOf(b[1])
    ELSE StrLess(Tail(a), Tail(b))

\* sort.Slice by Name() of a set of distinct names
RECURSIVE SortNames(_)
SortNames(names) ==
    IF names = {} THEN <<>>
    ELSE LET least == CHOOSE n \in names :
                          \A o \in names \ {n} : StrLess(n, o)
         IN  <<least>> \o SortNames(names \ {least})

\* d.Readdir(-1): the immediate children of the directory p
Readdir(files, p) ==
    {q \in DOMAIN files : q # p /\ Parent(q) = p}

\* the bytes a character of a URL string takes
ByteLen(c) == IF c = "%5C" THEN 3 ELSE 1

RECURSIVE StrLen(_)
StrLen(str) == IF str = <<>> THEN 0 ELSE ByteLen(Head(str)) + StrLen(Tail(str))

\* strings.LastIndex(str, c): the byte index, from 0, of the last c, or -1
LastIndex(str, c) ==
    LET at == {i \in 1..Len(str) : str[i] = c}
    IN  IF at = {} THEN -1
        ELSE LET last == CHOOSE i \in at : \A j \in at : j <= i
             IN  StrLen(SubSeq(str, 1, last - 1))

NoURL == [nil |-> TRUE, url |-> <<>>]

\* the ParentDir of the listing: the request URL without a trailing "/",
\* cut at its last "/" when that is past the second byte
ParentDir(req) ==
    LET full == URLString(req)
        urlStr == IF HasSuffix(full, <<"/">>)
                  THEN SubSeq(full, 1, Len(full) - 1) ELSE full
        lastSlashPos == LastIndex(urlStr, "/")
    IN  IF lastSlashPos > 1
        THEN LET last == CHOOSE i \in 1..Len(urlStr) :
                            /\ urlStr[i] = "/"
                            /\ \A j \in (i + 1)..Len(urlStr) : urlStr[j] # "/"
             IN  [nil |-> FALSE, url |-> SubSeq(urlStr, 1, last - 1)]
        ELSE NoURL

serveDir(rw, h, req, p, files, fault) ==
    IF fault = "dirOpenErr" THEN Result("EIO", rw, files)
    ELSE LET children == Readdir(files, p)
             sorted == SortNames({Base(q) : q \in children})
             rw1 == SetHeader(rw, "Content-Type", "text/html; charset=utf-8")
             Files == [i \in 1..Len(sorted) |->
                          LET d == files[Join(p, sorted[i])]
                          IN  [Name |-> IF d.dir
                                        THEN sorted[i] \o <<osPathSeparator>>
                                        ELSE sorted[i],
                               IsDir |-> d.dir,
                               Size |-> Len(d.data)]]
         IN  IF fault = "tmplErr"
             THEN Result("EPIPE", Write(rw1, [kind |-> "listing", complete |-> FALSE]), files)
             ELSE Result("nil",
                         Write(rw1, [kind |-> "listing", complete |-> TRUE,
                                     AllowUpload |-> h.allowUpload,
                                     ParentDir |-> ParentDir(req),
                                     Files |-> Files]),
                         files)

ErrMissingFile == "http: no such file"
ErrNotMultipart == "request Content-Type isn't multipart/form-data"

\* r.FormFile("file"): the error, and the file part when there is one.  A
\* part that declares an empty file name is a form value, not a file.
FormFile(req) ==
    IF req.form.kind = "file" /\ req.form.filename # <<>> THEN "nil"
    ELSE IF req.form.kind \in {"file", "nofile"} THEN ErrMissingFile
    ELSE ErrNotMultipart

\* the output path joined from the declared name as it was sent
OutPathOfDeclaredName(p, filename) == Join(p, filename)

\* outPath: the base of the declared file name, in the directory p
OutPath(p, filename) == Join(p, Base(filename))

serveUploadTo(rw, req, p, files, fault) ==
    IF fault = "parseErr" THEN Result("EINVAL", rw, files)
    ELSE LET err == FormFile(req)
             rw1 == IF err = ErrMissingFile
                    THEN WriteHeader(SetHeader(rw, "Location", URLString(req)),
                                     303)
                    ELSE rw
         IN  IF err # "nil" THEN Result(err, rw1, files)
             ELSE LET outPath == OutPath(p, req.form.filename)
                      out == OpenFile(files, outPath, fault)
                  IN  IF out.err # "nil" THEN Result(out.err, rw1, out.fs)
                      ELSE LET cp == Copy(out.fs, outPath, req.form.body, fault)
                           IN  IF cp.err # "nil"
                               THEN Result(cp.err, rw1, cp.fs)
                               ELSE Result("nil",
                                      WriteHeader(
                                        SetHeader(rw1, "Location",
                                                  URLString(req)), 303),
                                      cp.fs)

\* containsDotDot of net/http: an element of the URL path is ".."
ContainsDotDot(path) ==
    \E i \in 1..Len(Split(ReplaceAll(path, "\\", "/"))) :
        Split(ReplaceAll(path, "\\", "/"))[i] = DotDot

\* http.ServeFile for a file that was stat'ed
ServeFile(rw, req, p, files) ==
    IF ContainsDotDot(req.path)
    THEN Result("nil",
                Write(WriteHeader(
                        SetHeader(rw, "Content-Type",
                                  "text/plain; charset=utf-8"), 400),
                      Text("invalid URL path")),
                files)
    ELSE Result("nil",
                Write(WriteHeader(rw, 200), [kind |-> "file", data |-> files[p].data]),
                files)

----------------------------------------------------------------------------
(* fileHandler.ServeHTTP *)

\* the osPath of a request URL path
Resolve(h, path) ==
    LET u0 == IF ~HasPrefix(path, <<"/">>) THEN <<"/">> \o path ELSE path
        u1 == TrimPrefix(u0, h.route)
        u2 == TrimPrefix(u1, <<"/">> \o h.route)
        o0 == ReplaceAll(u2, "/", osPathSeparator)
        o1 == Clean(o0)
    IN  Join(h.path, o1)

\* the switch with the archive cases ahead of the two gating cases
RouteArchiveFirst(h, req, st) ==
    IF IsNotExist(st.err) THEN "notFound"
    ELSE IF IsPermission(st.err) THEN "forbidden"
    ELSE IF st.err # "nil" THEN "internalError"
    ELSE IF QueryGet(req, zipKey) # "" THEN "zip"
    ELSE IF QueryGet(req, tarGzKey) # "" THEN "tarGz"
    ELSE IF ~h.allowDelete /\ req.method = MethodDelete THEN "deleteDenied"
    ELSE IF ~h.allowUpload /\ req.method = MethodPost THEN "uploadDenied"
    ELSE IF h.allowUpload /\ st.isDir /\ req.method = MethodPost THEN "upload"
    ELSE IF h.allowDelete /\ ~st.isDir /\ req.method = MethodDelete THEN "delete"
    ELSE IF st.isDir THEN "dir"
    ELSE "file"

\* the switch with the two gating cases ahead of the stat errors
RouteGateFirst(h, req, st) ==
    IF ~h.allowDelete /\ req.method = MethodDelete THEN "deleteDenied"
    ELSE IF ~h.allowUpload /\ req.method = MethodPost THEN "uploadDenied"
    ELSE IF IsNotExist(st.err) THEN "notFound"
    ELSE IF IsPermission(st.err) THEN "forbidden"
    ELSE IF st.err # "nil" THEN "internalError"
    ELSE IF QueryGet(req, zipKey) # "" THEN "zip"
    ELSE IF QueryGet(req, tarGzKey) # "" THEN "tarGz"
    ELSE IF h.allowUpload /\ st.isDir /\ req.method = MethodPost THEN "upload"
    ELSE IF h.allowDelete /\ ~st.isDir /\ req.method = MethodDelete THEN "delete"
    ELSE IF st.isDir THEN "dir"
    ELSE "file"

\* the switch with the tar.gz case ahead of the zip case
RouteTarGzFirst(h, req, st) ==
    IF IsNotExist(st.err) THEN "notFound"
    ELSE IF IsPermission(st.err) THEN "forbidden"
    ELSE IF st.err # "nil" THEN "internalError"
    ELSE IF ~h.allowDelete /\ req.method = MethodDelete THEN "deleteDenied"
    ELSE IF ~h.allowUpload /\ req.method = MethodPost THEN "uploadDenied"
    ELSE IF QueryGet(req, tarGzKey) # "" THEN "tarGz"
    ELSE IF QueryGet(req, zipKey) # "" THEN "zip"
    ELSE IF h.allowUpload /\ st.isDir /\ req.method = MethodPost THEN "upload"
    ELSE IF h.allowDelete /\ ~st.isDir /\ req.method = MethodDelete THEN "delete"
    ELSE IF st.isDir THEN "dir"
    ELSE "file"

\* the switch with the upload and delete cases ahead of the archive cases
RouteVerbsFirst(h, req, st) ==
    IF IsNotExist(st.err) THEN "notFound"
    ELSE IF IsPermission(st.err) THEN "forbidden"
    ELSE IF st.err # "nil" THEN "internalError"
    ELSE IF ~h.allowDelete /\ req.method = MethodDelete THEN "deleteDenied"
    ELSE IF ~h.allowUpload /\ req.method = MethodPost THEN "uploadDenied"
    ELSE IF h.allowUpload /\ st.isDir /\ req.method = MethodPost THEN "upload"
    ELSE IF h.allowDelete /\ ~st.isDir /\ req.method = MethodDelete THEN "delete"
    ELSE IF QueryGet(req, zipKey) # "" THEN "zip"
    ELSE IF QueryGet(req, tarGzKey) # "" THEN "tarGz"
    ELSE IF st.isDir THEN "dir"
    ELSE "file"

\* the switch with a delete case that does not test the method
RouteDeleteAnyMethod(h, req, st) ==
    IF IsNotExist(st.err) THEN "notFound"
    ELSE IF IsPermission(st.err) THEN "forbidden"
    ELSE IF st.err # "nil" THEN "internalError"
    ELSE IF ~h.allowDelete /\ req.method = MethodDelete THEN "deleteDenied"
    ELSE IF ~h.allowUpload /\ req.method = MethodPost THEN "uploadDenied"
    ELSE IF QueryGet(req, zipKey) # "" THEN "zip"
    ELSE IF QueryGet(req, tarGzKey) # "" THEN "tarGz"
    ELSE IF h.allowUpload /\ st.isDir /\ req.method = MethodPost THEN "upload"
    ELSE IF h.allowDelete /\ ~st.isDir THEN "delete"
    ELSE IF st.isDir THEN "dir"
    ELSE "file"

\* the case of the switch a request takes: the first one whose condition
\* holds
Route(h, req, st) ==
    IF IsNotExist(st.err) THEN "notFound"
    ELSE IF IsPermission(st.err) THEN "forbidden"
    ELSE IF st.err # "nil" THEN "internalError"
    ELSE IF ~h.allowDelete /\ req.method = MethodDelete THEN "deleteDenied"
    ELSE IF ~h.allowUpload /\ req.method = MethodPost THEN "uploadDenied"
    ELSE IF QueryGet(req, zipKey) # "" THEN "zip"
    ELSE IF QueryGet(req, tarGzKey) # "" THEN "tarGz"
    ELSE IF h.allowUpload /\ st.isDir /\ req.method = MethodPost THEN "upload"
    ELSE IF h.allowDelete /\ ~st.isDir /\ req.method = MethodDelete
         THEN "delete"
    ELSE IF st.isDir THEN "dir"
    ELSE "file"

\* the error of a sub-handler dropped without an answer
OnErrorSilent(res) == res

\* a sub-handler's error is answered with serveStatus(500)
OnError(res) ==
    IF res.err # "nil"
    THEN Result(res.err, serveStatus(res.w, 500), res.fs)
    ELSE res

\* the body of the case taken
Dispatch(h, req, p, files, fault) ==
    LET case == Route(h, req, Stat(files, p, fault))
        rw == NewWriter
    IN  CASE case = "notFound" -> Result("nil", serveStatus(rw, 404), files)
          [] case = "forbidden" -> Result("nil", serveStatus(rw, 403), files)
          [] case = "internalError" ->
                Result("nil", serveStatus(rw, 500), files)
          [] case = "deleteDenied" ->
                Result("nil", serveStatus(rw, 403), files)
          [] case = "uploadDenied" ->
                Result("nil", serveStatus(rw, 403), files)
          [] case = "zip" -> OnError(serveZip(rw, req, p, files, fault))
          [] case = "tarGz" -> OnError(serveTarGz(rw, req, p, files, fault))
          [] case = "upload" ->
                OnError(serveUploadTo(rw, req, p, files, fault))
          [] case = "delete" ->
                LET rm == Remove(files, p, fault)
                IN  OnError(Result(rm.err, rw, rm.fs))
          [] case = "dir" -> OnError(serveDir(rw, h, req, p, files, fault))
          [] case = "file" -> ServeFile(rw, req, p, files)

----------------------------------------------------------------------------
(* The mounts and the requests of the model. *)

Mounts ==
    [route : {<<"/", "m">>}, path : {<<"/", "r">>},
     allowUpload : BOOLEAN, allowDelete : BOOLEAN]

UrlPaths ==
    {<<>>,                                  \* the empty path
     <<"/", "m">>,                          \* the mount root
     <<"/", "m", "/", "f">>,                \* a file
     <<"/", "m", "/", "d">>,                \* a directory
     <<"/", "m", "/", "d", "/", "f">>,      \* missing until it is uploaded
     <<"/", "m", "/", "f", "/", "x">>,      \* below a file
     <<"/", "m", "/", ".", ".", "/", "s">>, \* ".." after the route and a "/"
     <<"/", "m", ".", ".", "/", "s">>,      \* ".." right after the route
     <<"/", "m", ".", ".">>,
     <<"/", "m", "f">>}                     \* text right after the route

UploadBytes == {3}

RECURSIVE SeqsUpTo(_, _)
SeqsUpTo(S, n) ==
    IF n = 0 THEN {<<>>}
    ELSE LET shorter == SeqsUpTo(S, n - 1)
         IN  shorter \cup {Append(q, x) : q \in shorter, x \in S}

UploadBodies == SeqsUpTo(UploadBytes, MaxUploadLen)

\* the declared file names of an uploaded part
FileNames ==
    {<<"f">>, <<".", ".", "/", "f">>, <<"/", "f">>,
     <<".", ".">>, <<".">>, <<>>}

Forms ==
    {[kind |-> "none", filename |-> <<>>, body |-> <<>>],
     [kind |-> "nofile", filename |-> <<>>, body |-> <<>>]}
    \cup [kind : {"file"}, filename : FileNames, body : UploadBodies]

QueryValues == {"", "true"}

\* the values of the zip parameter: absent, the value of the listing's
\* link, another value
ZipQueryValues == QueryValues \cup {"1"}

Requests ==
    [method : {MethodGet, MethodHead, MethodDelete}, path : UrlPaths,
     zip : ZipQueryValues, tgz : QueryValues, rawq : {""},
     form : {NoRequest.form}]
    \cup [method : {MethodPost}, path : UrlPaths,
          zip : ZipQueryValues, tgz : QueryValues, rawq : {""},
          form : Forms]

----------------------------------------------------------------------------
(* The state machine: a request arrives, ServeHTTP serves it, the server    *)
(* ends the response.                                                       *)

Init ==
    /\ f \in Mounts
    /\ fs = InitFS
    /\ pc = "idle"
    /\ r = NoRequest
    /\ env = "none"
    /\ osPath = <<>>
    /\ w = NewWriter
    /\ served = 0
    /\ up = NoUploads

Receive ==
    /\ pc = "idle"
    /\ served < MaxRequests
    /\ \E req \in Requests : r' = req
    /\ pc' = "serving"
    /\ served' = served + 1
    /\ UNCHANGED <<f, fs, env, osPath, w, up>>

ServeHTTP ==
    /\ pc = "serving"
    /\ LET p == Resolve(f, r.path)
           quiet == Dispatch(f, r, p, fs, "none")
       IN  \E fault \in Faults :
              LET res == IF fault = "none" THEN quiet
                         ELSE Dispatch(f, r, p, fs, fault)
              IN  \* a fault no call of this request meets is no fault
                  /\ fault = "none" \/ res # quiet
                  /\ env' = fault
                  /\ osPath' = p
                  /\ w' = FinishRequest(res.w)
                  /\ fs' = res.fs
    /\ pc' = "done"
    /\ UNCHANGED <<f, r, served, up>>

Close ==
    /\ pc = "done"
    /\ pc' = "idle"
    /\ r' = NoRequest
    /\ env' = "none"
    /\ osPath' = <<>>
    /\ w' = NewWriter
    /\ UNCHANGED <<f, fs, served, up>>

Next == Receive \/ ServeHTTP \/ Close

Spec == Init /\ [][Next]_vars

----------------------------------------------------------------------------
(* The claims.  A step of ServeHTTP takes a state with pc = "serving" to    *)
(* one with pc = "done": fs is the file system before the request and fs'   *)
(* the one after it.                                                        *)

----------------------------------------------------------------------------
(* Directory listings: mounts whose route has one or two segments, over a   *)
(* root directory that holds any set of the names below.                    *)

ListingRoot == <<"/", "r">>

ListingNames == {<<"A">>, <<"B">>, <<"a">>, <<"a", "2">>, <<"b">>}

\* the root directory /r with the children S; B is a directory that holds
\* a file A and a file b, the others are files
ListingFS(S) ==
    LET top == {Join(ListingRoot, n) : n \in S}
        sub == IF <<"B">> \in S
               THEN {Join(Join(ListingRoot, <<"B">>), n) :
                        n \in {<<"A">>, <<"b">>}}
               ELSE {}
    IN  [q \in {Root, ListingRoot} \cup top \cup sub |->
            IF q \in {Root, ListingRoot, Join(ListingRoot, <<"B">>)}
            THEN DirEntry
            ELSE FileEntry(<<Len(q)>>)]

ListingMounts ==
    [route : {<<"/", "m">>, <<"/", "a", "/", "b">>}, path : {ListingRoot},
     allowUpload : {FALSE}, allowDelete : {FALSE}]

\* GET of the mount root and of its directory B, with and without a
\* trailing slash, with and without a query string
ListingRequests(h) ==
    [method : {MethodGet},
     path : {h.route \o rest : rest \in {<<>>, <<"/">>, <<"/", "B">>,
                                         <<"/", "B", "/">>}},
     zip : {""}, tgz : {""}, rawq : {"", "x=1"}, form : {NoRequest.form}]

InitListing ==
    /\ f \in ListingMounts
    /\ fs \in {ListingFS(S) : S \in SUBSET ListingNames}
    /\ pc = "idle"
    /\ r = NoRequest
    /\ env = "none"
    /\ osPath = <<>>
    /\ w = NewWriter
    /\ served = 0
    /\ up = NoUploads

ReceiveListing ==
    /\ pc = "idle"
    /\ served < MaxRequests
    /\ \E req \in ListingRequests(f) : r' = req
    /\ pc' = "serving"
    /\ served' = served + 1
    /\ UNCHANGED <<f, fs, env, osPath, w, up>>

NextListing == ReceiveListing \/ ServeHTTP \/ Close

SpecListing == InitListing /\ [][NextListing]_vars

----------------------------------------------------------------------------
(* EmbeddedHandler: the style sheet and the icons of the listing.           *)

autoindex_css == <<"/", "static", "/", "layout", "/", "autoindex.css">>
blank_png == <<"/", "static", "/", "icons", "/", "blank.png">>
folder_png == <<"/", "static", "/", "icons", "/", "folder.png">>
go_previous_png == <<"/", "static", "/", "icons", "/", "go-previous.png">>
package_x_generic_png ==
    <<"/", "static", "/", "icons", "/", "package-x-generic.png">>

Assets ==
    {autoindex_css, blank_png, folder_png, go_previous_png,
     package_x_generic_png}

\* the bytes of an embedded file: the file, and what it holds
AssetBytes(asset) ==
    [kind |-> "asset", asset |-> asset,
     format |-> IF asset = autoindex_css THEN "css" ELSE "png"]

AssetContentType(asset) ==
    IF asset = autoindex_css THEN "text/css" ELSE "image/png"

\* EmbeddedHandler.ServeHTTP: the writer after the handler returned
EmbeddedServe(rw, urlPath) ==
    IF ~HasPrefix(urlPath, <<"/", "static">>) THEN rw
    ELSE IF urlPath \in Assets
    THEN LET rw1 == WriteHeader(rw, 200)
             rw2 == SetHeader(rw1, "Content-Type", AssetContentType(urlPath))
         IN  Write(rw2, AssetBytes(urlPath))
    ELSE rw

\* http.DetectContentType of the first bytes of a body: a PNG signature is
\* image/png, text is text/plain
DetectContentType(chunk) ==
    IF chunk.kind = "asset" /\ chunk.format = "png" THEN "image/png"
    ELSE IF chunk.kind \in {"asset", "text", "listing"}
    THEN "text/plain; charset=utf-8"
    ELSE "application/octet-stream"

\* the Content-Type the server sends: the one of the headers committed with
\* the status, or else the one detected from the body, or none
NoContentType == ""

WireContentType(rw) ==
    IF "Content-Type" \in DOMAIN rw.sent THEN rw.sent["Content-Type"]
    ELSE IF rw.body # <<>> THEN DetectContentType(rw.body[1])
    ELSE NoContentType

StaticPaths ==
    Assets
    \cup {<<>>, <<"/", "m">>, <<"/", "static">>,
          <<"/", "static", "/", "icons", "/", "x">>,
          <<"/", "static", "x">>}

StaticRequests ==
    [method : {MethodGet, MethodPost, MethodDelete}, path : StaticPaths,
     zip : {""}, tgz : {""}, rawq : {""}, form : {NoRequest.form}]

ReceiveStatic ==
    /\ pc = "idle"
    /\ served < MaxRequests
    /\ \E req \in StaticRequests : r' = req
    /\ pc' = "serving"
    /\ served' = served + 1
    /\ UNCHANGED <<f, fs, env, osPath, w, up>>

EmbeddedServeHTTP ==
    /\ pc = "serving"
    /\ w' = FinishRequest(EmbeddedServe(w, r.path))
    /\ pc' = "done"
    /\ UNCHANGED <<f, fs, r, env, osPath, served, up>>

NextStatic == ReceiveStatic \/ EmbeddedServeHTTP \/ Close

SpecStatic == Init /\ [][NextStatic]_vars

----------------------------------------------------------------------------
(* Path resolution: the same prefix configured as "m" and as "/m", and the  *)
(* request paths /m and /m/<rest>.                                          *)

PathMounts ==
    [route : {<<"m">>, <<"/", "m">>}, path : {<<"/", "r">>},
     allowUpload : {FALSE}, allowDelete : {FALSE}]

PathChars == {"/", ".", "m", "x"}

PathUrls ==
    {<<"/", "m">>}
    \cup {<<"/", "m", "/">> \o rest : rest \in SeqsUpTo(PathChars, MaxRestLen)}

InitPath ==
    /\ f \in PathMounts
    /\ fs = InitFS
    /\ pc = "idle"
    /\ r = NoRequest
    /\ env = "none"
    /\ osPath = <<>>
    /\ w = NewWriter
    /\ served = 0
    /\ up = NoUploads

ReceivePath ==
    /\ pc = "idle"
    /\ served < MaxRequests
    /\ \E path \in PathUrls :
          r' = [NoRequest EXCEPT !.method = MethodGet, !.path = path]
    /\ pc' = "serving"
    /\ served' = served + 1
    /\ UNCHANGED <<f, fs, env, osPath, w, up>>

NextPath == ReceivePath \/ ServeHTTP \/ Close

SpecPath == InitPath /\ [][NextPath]_vars

----------------------------------------------------------------------------
(* Two uploads of the same file name into the same directory, each in its   *)
(* own goroutine: serveUploadTo opens the file, io.Copy writes it chunk by  *)
(* chunk through the upload's own file descriptor, then the 303 is sent.    *)
(* One byte of the model is one chunk of io.Copy.                           *)

Uploaders == {1, 2}

\* the body of upload i: chunks no other upload holds
BodyOf(i, n) == [k \in 1..n |-> 10 * i + k]

UploadMount ==
    [route |-> <<"/", "m">>, path |-> <<"/", "r">>,
     allowUpload |-> TRUE, allowDelete |-> FALSE]

\* the file both uploads are written to
Target == OutPath(osPath, <<"f">>)

InitConc ==
    /\ f = UploadMount
    /\ fs = InitFS
    /\ pc = "serving"
    /\ r = NoRequest
    /\ env = "none"
    /\ osPath \in {<<"/", "r">>, <<"/", "r", "/", "d">>}
    /\ w = NewWriter
    /\ served = 0
    /\ up \in [Uploaders -> [pc : {"open"}, off : {0}, status : {0},
                             body : {<<>>}]]

\* os.OpenFile of the target
UploadOpen(i) ==
    /\ up[i].pc = "open"
    /\ \E n \in 1..MaxChunks :
          up' = [up EXCEPT ![i].pc = "copy", ![i].body = BodyOf(i, n)]
    /\ fs' = OpenFile(fs, Target, "none").fs
    /\ UNCHANGED <<f, pc, r, env, osPath, w, served>>

\* io.Copy writes its next chunk at the offset of the upload's descriptor
UploadWrite(i) ==
    /\ up[i].pc = "copy"
    /\ up[i].off < Len(up[i].body)
    /\ fs' = [fs EXCEPT ![Target].data =
                 WriteAt(@, up[i].off, <<up[i].body[up[i].off + 1]>>)]
    /\ up' = [up EXCEPT ![i].off = @ + 1]
    /\ UNCHANGED <<f, pc, r, env, osPath, w, served>>

\* io.Copy returns nil: the redirect is sent and the file is closed
UploadFinish(i) ==
    /\ up[i].pc = "copy"
    /\ up[i].off = Len(up[i].body)
    /\ up' = [up EXCEPT ![i].pc = "done", ![i].status = 303]
    /\ UNCHANGED <<f, fs, pc, r, env, osPath, w, served>>

NextConc ==
    \E i \in Uploaders : UploadOpen(i) \/ UploadWrite(i) \/ UploadFinish(i)

SpecConc == InitConc /\ [][NextConc]_vars

Served == pc = "serving" /\ pc' = "done"

\* the last element of a declared file name
LastElem(name) == Split(name)[Len(Split(name))]

\* the paths whose entry differs between two file systems
Changed(before, after) ==
    {q \in DOMAIN before \cup DOMAIN after :
        \/ q \notin DOMAIN before
        \/ q \notin DOMAIN after
        \/ before[q] # after[q]}

\* C1: path containment.  The osPath that ServeHTTP computes for a request
\* is the mount's rootPath or a descendant of it, for every URL path.
PathContainment ==
    pc = "done" => Within(f.path, osPath)

\* C2: feature gating.  On a mount without allowUpload a POST to a path
\* that can be stat'ed is answered 403 and changes no file; on a mount
\* without allowDelete a DELETE to such a path is answered 403 and the file
\* system is as before; whatever the query parameters.
FeatureGating ==
    [][(Served /\ Stat(fs, osPath', env').err = "nil") =>
          /\ (~f.allowUpload /\ r.method = MethodPost) =>
                 (w'.status = 403 /\ w'.calls = <<403>> /\ fs' = fs)
          /\ (~f.allowDelete /\ r.method = MethodDelete) =>
                 (w'.status = 403 /\ w'.calls = <<403>> /\ fs' = fs)]_vars

\* a DELETE with an archive parameter of an existing file was refused on a
\* mount without allowDelete, and the file is still there
FeatureGatingWitness ==
    /\ pc = "done"
    /\ ~f.allowDelete
    /\ r.method = MethodDelete
    /\ r.zip = "true"
    /\ env = "none"
    /\ osPath = <<"/", "r", "/", "f">>
    /\ osPath \in DOMAIN fs
    /\ w.status = 403

\* C3: stat failures come first.  For every method, query and flag setting,
\* a stat that fails because the path does not exist is answered 404, one
\* that fails with a permission error 403, any other stat error 500; only
\* the status and its text are written and the file system is unchanged.
StatFailureFirst ==
    [][Served =>
          LET err == Stat(fs, osPath', env').err
              status == IF err = "ENOENT" THEN 404
                        ELSE IF err = "EACCES" THEN 403
                        ELSE 500
          IN  err # "nil" =>
                 /\ w'.status = status
                 /\ w'.calls = <<status>>
                 /\ w'.body = <<Text(StatusText(status))>>
                 /\ DOMAIN w'.sent = {}
                 /\ fs' = fs]_vars

\* a DELETE of a path that does not exist was answered 404 on a mount
\* without allowDelete
StatFailureFirstWitness ==
    /\ pc = "done"
    /\ ~f.allowDelete
    /\ r.method = MethodDelete
    /\ osPath \notin DOMAIN fs
    /\ osPath = <<"/", "r", "/", "d", "/", "f">>
    /\ env = "none"
    /\ w.status = 404

\* C4: dispatch precedence.  A GET of an existing path with zip=true and
\* tar.gz=true gets the zip response (Content-Type application/zip) and no
\* tar+gzip archive, whatever allowUpload and allowDelete are.
ZipBeforeTarGz ==
    (/\ pc = "done"
     /\ r.method = MethodGet
     /\ r.zip = zipValue
     /\ r.tgz = tarGzValue
     /\ Stat(fs, osPath, env).err = "nil") =>
        /\ "Content-Type" \in DOMAIN w.sent
        /\ w.sent["Content-Type"] = zipContentType
        /\ \A i \in 1..Len(w.body) :
              w.body[i].kind = "archive" => w.body[i].format = "zip"
        /\ env = "none" =>
              /\ w.status = 200
              /\ Len(w.body) = 1
              /\ w.body[1].kind = "archive"

\* a GET with both parameters was answered with a zip archive on a mount
\* that allows uploads and deletes
ZipBeforeTarGzWitness ==
    /\ pc = "done"
    /\ f.allowUpload
    /\ f.allowDelete
    /\ r.method = MethodGet
    /\ r.zip = zipValue
    /\ r.tgz = tarGzValue
    /\ env = "none"
    /\ osPath = <<"/", "r">>
    /\ w.status = 200
    /\ w.body[1].kind = "archive"
    /\ w.body[1].format = "zip"

\* C5: upload overwrite.  After a successful upload whose base file name
\* collides with an existing file of the target directory, the content of
\* that file is exactly the uploaded bytes.
UploadOverwritesExactly ==
    [][(/\ Served
        /\ r.method = MethodPost
        /\ r.form.kind = "file"
        /\ env' = "none"
        /\ w'.status = 303
        /\ Join(osPath', Base(r.form.filename)) \in DOMAIN fs) =>
          fs'[Join(osPath', Base(r.form.filename))].data = r.form.body]_vars

\* C6: upload file-name containment.  For every declared file name, the
\* only file an upload creates or modifies is a direct child of the target
\* directory, named by the last element of the declared name, and no file
\* is removed.
UploadStaysInTargetDir ==
    [][(Served /\ r.method = MethodPost /\ r.form.kind = "file") =>
          \A q \in Changed(fs, fs') :
              /\ q \in DOMAIN fs'
              /\ ~fs'[q].dir
              /\ q # osPath'
              /\ Parent(q) = osPath'
              /\ q = (IF osPath' = Root THEN Root
                      ELSE osPath' \o <<osPathSeparator>>)
                     \o LastElem(r.form.filename)]_vars

\* an upload declared as "../f" created f in the target directory /r/d
UploadStaysInTargetDirWitness ==
    /\ pc = "done"
    /\ r.method = MethodPost
    /\ r.form.kind = "file"
    /\ r.form.filename = <<".", ".", "/", "f">>
    /\ osPath = <<"/", "r", "/", "d">>
    /\ w.status = 303
    /\ <<"/", "r", "/", "d", "/", "f">> \in DOMAIN fs
    /\ fs[<<"/", "r", "/", "d", "/", "f">>].data = r.form.body
    /\ r.form.body # <<>>

\* C7: an empty upload is a success that does nothing.  A POST to an
\* existing directory on a mount with allowUpload whose form has no file
\* part is answered 303 with the current URL as Location, writes nothing to
\* the file system, and gets no 500 status and no error body.
EmptyUploadIsNoOpSuccess ==
    [][(/\ Served
        /\ f.allowUpload
        /\ r.method = MethodPost
        /\ r.form.kind = "nofile"
        /\ r.zip = ""
        /\ r.tgz = ""
        /\ env' = "none"
        /\ Stat(fs, osPath', env').err = "nil"
        /\ Stat(fs, osPath', env').isDir) =>
          /\ w'.status = 303
          /\ "Location" \in DOMAIN w'.sent
          /\ w'.sent["Location"] = URLString(r)
          /\ fs' = fs
          /\ \A i \in 1..Len(w'.calls) : w'.calls[i] # 500
          /\ w'.body = <<>>]_vars

\* C8: a DELETE of a directory is answered 403 and removes nothing, also
\* on a mount with allowDelete.
DeleteOfDirectoryForbidden ==
    [][(/\ Served
        /\ r.method = MethodDelete
        /\ Stat(fs, osPath', env').err = "nil"
        /\ Stat(fs, osPath', env').isDir) =>
          /\ w'.status = 403
          /\ fs' = fs]_vars

\* C9: a DELETE of an existing file on a mount with allowDelete, without
\* archive parameter, removes the entry at the resolved path and no other
\* and is answered with a 2xx status; when the removal fails the answer is
\* 500 and the file system is unchanged.
DeleteRemovesExactlyOne ==
    [][(/\ Served
        /\ f.allowDelete
        /\ r.method = MethodDelete
        /\ r.zip = ""
        /\ r.tgz = ""
        /\ Stat(fs, osPath', env').err = "nil"
        /\ ~Stat(fs, osPath', env').isDir) =>
          IF env' = "removeErr"
          THEN w'.status = 500 /\ fs' = fs
          ELSE /\ w'.status \in 200..299
               /\ DOMAIN fs' = DOMAIN fs \ {osPath'}
               /\ osPath' \in DOMAIN fs
               /\ \A q \in DOMAIN fs' : fs'[q] = fs[q]]_vars

\* the file /r/f was deleted and the answer was 200
DeleteRemovesExactlyOneWitness ==
    /\ pc = "done"
    /\ f.allowDelete
    /\ r.method = MethodDelete
    /\ r.zip = ""
    /\ r.tgz = ""
    /\ env = "none"
    /\ osPath = <<"/", "r", "/", "f">>
    /\ osPath \notin DOMAIN fs
    /\ w.status = 200

\* C10: exactly one terminal status.  On every path through ServeHTTP,
\* also when a sub-handler returns an error, the status of the response is
\* written exactly once.
OneStatusWrite ==
    pc = "done" => Len(w.calls) = 1


\* C11: early archive failure.  When a zip or tar+gzip request fails before
\* any archive byte was written, the status is 500 and the body holds no
\* archive content.
EarlyArchiveFailureIs500 ==
    (pc = "done" /\ env = "archEarly") =>
        /\ w.status = 500
        /\ w.calls = <<500>>
        /\ w.body = <<Text(StatusText(500))>>

\* a tar+gzip request of the mount root failed before its first byte and
\* was answered 500
EarlyArchiveFailureIs500Witness ==
    /\ pc = "done"
    /\ env = "archEarly"
    /\ r.method = MethodGet
    /\ r.zip = ""
    /\ r.tgz = tarGzValue
    /\ osPath = <<"/", "r">>
    /\ w.status = 500

\* the request just served was routed to an archive: the path was stat'ed,
\* the method is not refused by the mount, and zip or tar.gz is not empty
ArchiveRequested ==
    /\ pc = "done"
    /\ env \notin {"statEACCES", "statEIO"}
    /\ osPath \in DOMAIN fs
    /\ ~(~f.allowDelete /\ r.method = MethodDelete)
    /\ ~(~f.allowUpload /\ r.method = MethodPost)
    /\ (r.zip # "" \/ r.tgz # "")

\* C12: archive header ordering.  For both formats the Content-Type and the
\* Content-Disposition (attachment, base name of the resolved path plus
\* ".zip" or ".tar.gz") are in the headers sent with the first status, so
\* they were set before the first archive byte and before any status.
ArchiveHeadersFirst ==
    ArchiveRequested =>
        /\ DOMAIN w.sent = {"Content-Type", "Content-Disposition"}
        /\ w.sent["Content-Type"] =
              (IF r.zip # "" THEN zipContentType ELSE tarGzContentType)
        /\ w.sent["Content-Disposition"] =
              [attachment |-> TRUE,
               filename |-> Base(osPath)
                            \o (IF r.zip # "" THEN <<".zip">>
                                ELSE <<".tar.gz">>)]

\* a zip of the directory /r/d was sent with both headers
ArchiveHeadersFirstWitness ==
    /\ ArchiveRequested
    /\ env = "none"
    /\ r.zip = zipValue
    /\ osPath = <<"/", "r", "/", "d">>
    /\ w.status = 200
    /\ w.body[1].kind = "archive"
    /\ w.sent["Content-Disposition"].filename = <<"d", ".zip">>

\* C14: archive requests come before the action verbs.  A POST or DELETE
\* of an existing path with a non-empty zip or tar.gz parameter, on a mount
\* that allows the verb, gets the archive: nothing is uploaded or removed.
ArchiveBeforeVerbs ==
    [][(/\ Served
        /\ Stat(fs, osPath', env').err = "nil"
        /\ \/ f.allowUpload /\ r.method = MethodPost
           \/ f.allowDelete /\ r.method = MethodDelete
        /\ (r.zip # "" \/ r.tgz # "")) =>
          /\ fs' = fs
          /\ "Content-Type" \in DOMAIN w'.sent
          /\ w'.sent["Content-Type"] =
                (IF r.zip # "" THEN zipContentType ELSE tarGzContentType)
          /\ env' = "none" =>
                /\ w'.status = 200
                /\ Len(w'.body) = 1
                /\ w'.body[1].kind = "archive"
                /\ w'.body[1].root = osPath']_vars

\* a DELETE of the file /r/f with zip=1 on a mount with allowDelete was
\* answered with a zip archive, and the file is still there
ArchiveBeforeVerbsWitness ==
    /\ pc = "done"
    /\ f.allowDelete
    /\ r.method = MethodDelete
    /\ r.zip = "1"
    /\ r.tgz = ""
    /\ env = "none"
    /\ osPath = <<"/", "r", "/", "f">>
    /\ osPath \in DOMAIN fs
    /\ w.body[1].kind = "archive"
    /\ w.body[1].format = "zip"

\* C15: mid-stream failure.  When a sub-handler returns an error after it
\* wrote response bytes, the dispatcher writes nothing more: no second
\* status and no further body bytes.
NothingAfterMidStreamFailure ==
    (pc = "done" /\ env \in {"archMid", "tmplErr"}) =>
        /\ Len(w.calls) = 1
        /\ Len(w.body) = 1

\* C17: requests that are neither an allowed upload nor an allowed delete
\* leave the file system as it was: every request with a method other than
\* POST and DELETE, every POST to a file, and every request answered by the
\* stat-error and gating cases.
OnlyUploadAndDeleteWrite ==
    [][Served =>
          LET st == Stat(fs, osPath', env')
          IN  (\/ r.method \notin {MethodPost, MethodDelete}
               \/ r.method = MethodPost /\ st.err = "nil" /\ ~st.isDir
               \/ st.err # "nil"
               \/ ~f.allowDelete /\ r.method = MethodDelete
               \/ ~f.allowUpload /\ r.method = MethodPost) => fs' = fs]_vars

\* a GET of the file /r/f on a mount with allowDelete sent the file, which
\* is still there
OnlyUploadAndDeleteWriteWitness ==
    /\ pc = "done"
    /\ f.allowDelete
    /\ f.allowUpload
    /\ r.method = MethodGet
    /\ r.zip = ""
    /\ r.tgz = ""
    /\ osPath = <<"/", "r", "/", "f">>
    /\ osPath \in DOMAIN fs
    /\ w.status = 200
    /\ w.body[1].kind = "file"

\* the child names of a listing, in its order: the Name of an entry of a
\* directory ends with the separator
ListedNames(listing) ==
    [i \in 1..Len(listing.Files) |->
        IF listing.Files[i].IsDir
        THEN SubSeq(listing.Files[i].Name, 1, Len(listing.Files[i].Name) - 1)
        ELSE listing.Files[i].Name]

\* the names n for which p/n exists: the immediate children of p
ChildNames(files, p) ==
    {SubSeq(q, Len(p) + 2, Len(q)) :
        q \in {x \in DOMAIN files :
                  /\ Len(x) > Len(p) + 1
                  /\ SubSeq(x, 1, Len(p) + 1) = p \o <<"/">>
                  /\ \A i \in (Len(p) + 2)..Len(x) : x[i] # "/"}}

\* a comes before b in byte order: at the first position where they differ
\* a has ended or has the smaller byte
BytesBefore(a, b) ==
    \E k \in 1..Len(b) :
        /\ \A i \in 1..(k - 1) : i <= Len(a) /\ a[i] = b[i]
        /\ k > Len(a) \/ ByteOf(a[k]) < ByteOf(b[k])

ListingSent ==
    /\ pc = "done"
    /\ env = "none"
    /\ Len(w.body) = 1
    /\ w.body[1].kind = "listing"
    /\ w.body[1].complete

\* C13: listing order.  The Files of a listing hold one entry per immediate
\* child of the directory, in ascending byte order of the names (A, B, a2,
\* b for the children b, A, a2, B), and none for anything deeper.
ListingOrder ==
    ListingSent =>
        LET names == ListedNames(w.body[1])
            children == ChildNames(fs, osPath)
        IN  /\ Len(names) = Cardinality(children)
            /\ {names[i] : i \in 1..Len(names)} = children
            /\ \A i, j \in 1..Len(names) :
                  i < j => BytesBefore(names[i], names[j])
            /\ children = {<<"b">>, <<"A">>, <<"a", "2">>, <<"B">>} =>
                  names = <<<<"A">>, <<"B">>, <<"a", "2">>, <<"b">>>>

\* the listing of the root directory with the children b, A, a2 and B, of
\* which B holds files of its own
ListingOrderWitness ==
    /\ ListingSent
    /\ osPath = ListingRoot
    /\ ChildNames(fs, osPath) = {<<"b">>, <<"A">>, <<"a", "2">>, <<"B">>}
    /\ Join(Join(ListingRoot, <<"B">>), <<"A">>) \in DOMAIN fs
    /\ Len(w.body[1].Files) = 4
    /\ w.body[1].Files[2].Name = <<"B", "/">>

\* the path of a URL string: the part before the query
URLPath(url) ==
    IF \E i \in 1..Len(url) : url[i] = "?"
    THEN SubSeq(url, 1, (CHOOSE i \in 1..Len(url) :
                            /\ url[i] = "?"
                            /\ \A j \in 1..(i - 1) : url[j] # "?") - 1)
    ELSE url

\* C18: the parent link never leaves the mount.  The ParentDir of a
\* listing is absent or a URL at or below the route of the mount, and the
\* listing of the mount root has none.
ParentDirStaysInMount ==
    ListingSent =>
        LET parent == w.body[1].ParentDir
        IN  /\ parent.nil \/ Within(f.route, URLPath(parent.url))
            /\ osPath = f.path => parent.nil

\* the mount with the other form of the same prefix
OtherForm(h) ==
    [h EXCEPT !.route = IF Head(h.route) = "/" THEN Tail(h.route)
                        ELSE <<"/">> \o h.route]

\* C20: the two forms of a route prefix are equivalent.  For a request path
\* /m or /m/<rest>, the mount with route "m" and the mount with route "/m"
\* resolve to the same osPath: the root path joined with the cleaned rest,
\* the prefix removed once.
RouteFormsEquivalent ==
    pc = "done" =>
        LET rest == SubSeq(r.path, 3, Len(r.path))
        IN  /\ osPath = Resolve(OtherForm(f), r.path)
            /\ osPath = Join(f.path, Clean(<<"/">> \o rest))

\* C19: static assets carry their content type.  The response to each of
\* the five asset paths has status 200, the bytes of the asset as its body,
\* and the Content-Type of the asset among the headers the server sends.
AssetContentTypeSent ==
    (pc = "done" /\ r.path \in Assets) =>
        /\ w.status = 200
        /\ w.body = <<AssetBytes(r.path)>>
        /\ WireContentType(w) = AssetContentType(r.path)

\* C16: last write wins.  Once two concurrent uploads to the same file have
\* both completed, the file holds the complete content of one of them and
\* never a mixture of the two.
LastWriteWins ==
    (\A i \in Uploaders : up[i].pc = "done") =>
        \E i \in Uploaders : fs[Target].data = up[i].body
====
